---- MODULE Spec2Model ----
(***************************************************************************)
(* TextImage (src/src/App.tsx): the request builder, the resolution codec, *)
(* the seed derivation and the generation session of the App component,    *)
(* with its status notifications, their timers and the full-size viewer.   *)
(*                                                                         *)
(* JavaScript strings are TLA+ strings; a character is a string of length  *)
(* one.  JavaScript numbers are IEEE doubles: every number of this model   *)
(* is an integer far below 2^53, where double arithmetic is exact, so      *)
(* they are TLA+ integers and + never wraps.                               *)
(***************************************************************************)
EXTENDS Integers, Sequences, FiniteSets, TLC

(***************************************************************************)
(* Characters                                                              *)
(***************************************************************************)

\* The printable ASCII characters in code order: codes 32 (space) to 95, and
\* codes 97 to 126 (code 96, the grave accent, cannot be written in a string).
AsciiLow ==
  " !\"#$%&'()*+,-./0123456789:;<=>?@ABCDEFGHIJKLMNOPQRSTUVWXYZ[\\]^_"

AsciiHigh == "abcdefghijklmnopqrstuvwxyz{|}~"

CharAt(s, i) == SubSeq(s, i, i)

Chars(s) == {CharAt(s, i) : i \in 1..Len(s)}

Digits == Chars("0123456789")
Lower == Chars("abcdefghijklmnopqrstuvwxyz")
Upper == Chars("ABCDEFGHIJKLMNOPQRSTUVWXYZ")
AlphaNum == Digits \cup Lower \cup Upper

\* Position of character c in string s (0 when absent).
IndexOf(s, c) ==
  IF c \in Chars(s) THEN CHOOSE i \in 1..Len(s) : CharAt(s, i) = c ELSE 0

\* Every character's code unit (String.prototype.charCodeAt), as a table.
CharCodes ==
  [c \in Chars(AsciiLow) \cup Chars(AsciiHigh) |->
     IF IndexOf(AsciiLow, c) > 0 THEN 31 + IndexOf(AsciiLow, c) ELSE 96 + IndexOf(AsciiHigh, c)]

CharCode(c) == CharCodes[c]

\* Two upper-case hexadecimal digits of a byte.
HexByte(n) ==
  CharAt("0123456789ABCDEF", (n \div 16) + 1) \o CharAt("0123456789ABCDEF", (n % 16) + 1)

PercentEncoded(c) == "%" \o HexByte(CharCode(c))

\* Whitespace as String.prototype.trim sees it (the ASCII part).
WhiteSpace == {" ", "\t", "\n", "\r"}

RECURSIVE TrimStart(_)
TrimStart(s) ==
  IF Len(s) > 0 /\ CharAt(s, 1) \in WhiteSpace THEN TrimStart(SubSeq(s, 2, Len(s))) ELSE s

RECURSIVE TrimEnd(_)
TrimEnd(s) ==
  IF Len(s) > 0 /\ CharAt(s, Len(s)) \in WhiteSpace
  THEN TrimEnd(SubSeq(s, 1, Len(s) - 1))
  ELSE s

\* String.prototype.trim
Trim(s) == TrimEnd(TrimStart(s))

(***************************************************************************)
(* Numbers                                                                 *)
(*                                                                         *)
(* A seed can exceed the 32-bit integers of the model checker, so a        *)
(* JavaScript number is a record [hi, lo] standing for hi * 2^16 + lo with *)
(* lo in 0..2^16-1, or the record NaN.  All numbers here are non-negative  *)
(* integers below 2^47, which a double holds exactly.                      *)
(***************************************************************************)

Limb == 256 * 256

Num(k) == [hi |-> k \div Limb, lo |-> k % Limb]

NaN == [nan |-> TRUE]
IsNaN(n) == "nan" \in DOMAIN n

\* a + k for a small non-negative integer k.
NumAdd(a, k) == [hi |-> a.hi + ((a.lo + k) \div Limb), lo |-> (a.lo + k) % Limb]

NumLess(a, b) == a.hi < b.hi \/ (a.hi = b.hi /\ a.lo < b.lo)
NumLeq(a, b) == a = b \/ NumLess(a, b)

\* Quotient and remainder of a by ten.
NumDiv10(a) ==
  LET rest == (a.hi % 10) * Limb + a.lo
  IN [hi |-> a.hi \div 10, lo |-> rest \div 10]

NumMod10(a) == ((a.hi % 10) * Limb + a.lo) % 10

RECURSIVE NatToString(_)
NatToString(a) ==
  IF a.hi = 0 /\ a.lo < 10 THEN CharAt("0123456789", a.lo + 1)
  ELSE NatToString(NumDiv10(a)) \o CharAt("0123456789", NumMod10(a) + 1)

\* String(n) for a non-negative integer or NaN.
NumberToString(n) == IF IsNaN(n) THEN "NaN" ELSE NatToString(n)

\* The value of the longest prefix of decimal digits of s from position i on,
\* given the value acc of the digits read so far.
RECURSIVE DigitsValue(_, _, _)
DigitsValue(s, i, acc) ==
  IF i <= Len(s) /\ CharAt(s, i) \in Digits
  THEN DigitsValue(s, i + 1, 10 * acc + (CharCode(CharAt(s, i)) - 48))
  ELSE acc

\* parseInt(s, 10) of a string without a sign: leading whitespace skipped, then
\* digits up to the first character that is none; NaN when there is no digit.
ParseInt(s) ==
  LET t == TrimStart(s)
  IN IF Len(t) = 0 \/ CharAt(t, 1) \notin Digits THEN NaN
     ELSE Num(DigitsValue(t, 1, 0))

\* String.prototype.split on a one-character separator: the pieces between
\* the separator's occurrences, in order.
Split(s, sep) ==
  LET cuts == {i \in 1..Len(s) : CharAt(s, i) = sep}
      cut(k) == CHOOSE i \in cuts : Cardinality({j \in cuts : j < i}) = k - 1
      n == Cardinality(cuts)
  IN [k \in 1..(n + 1) |->
        SubSeq(s, IF k = 1 THEN 1 ELSE cut(k - 1) + 1, IF k = n + 1 THEN Len(s) ELSE cut(k) - 1)]

(***************************************************************************)
(* Encoders                                                                *)
(***************************************************************************)

\* encodeURIComponent leaves A-Z a-z 0-9 - _ . ! ~ * ' ( ) and percent-encodes
\* every other character.  The strings of this model are printable ASCII, where
\* a character is one byte and the function never throws.
UriUnreserved == AlphaNum \cup Chars("-_.!~*'()")

uriEncodeTable == [c \in DOMAIN CharCodes |-> IF c \in UriUnreserved THEN c ELSE PercentEncoded(c)]

uriEncodeChar(c) == uriEncodeTable[c]

\* The encoding of a string is the concatenation of its characters' encodings,
\* computed here by halves.
RECURSIVE EncodeURIComponent(_)
EncodeURIComponent(s) ==
  IF Len(s) = 0 THEN ""
  ELSE IF Len(s) = 1 THEN uriEncodeChar(s)
  ELSE EncodeURIComponent(SubSeq(s, 1, Len(s) \div 2))
       \o EncodeURIComponent(SubSeq(s, (Len(s) \div 2) + 1, Len(s)))

\* The application/x-www-form-urlencoded serializer of URLSearchParams: it
\* leaves A-Z a-z 0-9 * - . _, writes a space as +, and percent-encodes the rest.
FormUnreserved == AlphaNum \cup Chars("*-._")

formEncodeTable ==
  [c \in DOMAIN CharCodes |->
     IF c \in FormUnreserved THEN c ELSE IF c = " " THEN "+" ELSE PercentEncoded(c)]

formEncodeChar(c) == formEncodeTable[c]

RECURSIVE FormEncode(_)
FormEncode(s) ==
  IF Len(s) = 0 THEN ""
  ELSE IF Len(s) = 1 THEN formEncodeChar(s)
  ELSE FormEncode(SubSeq(s, 1, Len(s) \div 2))
       \o FormEncode(SubSeq(s, (Len(s) \div 2) + 1, Len(s)))

\* URLSearchParams.prototype.toString of a list of <<name, value>> pairs.
RECURSIVE SearchParamsToString(_)
SearchParamsToString(pairs) ==
  IF Len(pairs) = 0 THEN ""
  ELSE FormEncode(pairs[1][1]) \o "=" \o FormEncode(pairs[1][2])
       \o (IF Len(pairs) > 1 THEN "&" ELSE "")
       \o SearchParamsToString(Tail(pairs))

(***************************************************************************)
(* Request builder and resolution codec                                    *)
(***************************************************************************)

UrlPrefix == "https://image.pollinations.ai/prompt/"

\* Mutant of buildPollinationsUrl: qs.set('enhance', String(enhance)) whenever
\* enhance is given, so that enhance=false is sent too.
buildPollinationsUrlAlwaysEnhance(params) ==
  LET base == << <<"width", NumberToString(params.width)>>,
                 <<"height", NumberToString(params.height)>>,
                 <<"seed", NumberToString(params.seed)>>,
                 <<"nologo", "true">> >>
      withModel ==
        IF "model" \in DOMAIN params /\ params.model # ""
        THEN Append(base, <<"model", params.model>>)
        ELSE base
      qs ==
        IF "enhance" \in DOMAIN params
        THEN Append(withModel, <<"enhance", IF params.enhance THEN "true" ELSE "false">>)
        ELSE withModel
  IN UrlPrefix \o EncodeURIComponent(params.prompt) \o "?" \o SearchParamsToString(qs)

\* params is the argument object: a record with prompt, width, height, seed and,
\* when given, model (a string) and enhance (a boolean).
buildPollinationsUrl(params) ==
  LET base == << <<"width", NumberToString(params.width)>>,
                 <<"height", NumberToString(params.height)>>,
                 <<"seed", NumberToString(params.seed)>>,
                 <<"nologo", "true">> >>
      withModel ==
        IF "model" \in DOMAIN params /\ params.model # ""
        THEN Append(base, <<"model", params.model>>)
        ELSE base
      qs ==
        IF "enhance" \in DOMAIN params /\ params.enhance
        THEN Append(withModel, <<"enhance", "true">>)
        ELSE withModel
  IN UrlPrefix \o EncodeURIComponent(params.prompt) \o "?" \o SearchParamsToString(qs)

\* The elements of the array destructured as [w, h]: a missing one is undefined,
\* which the return type's number reads as NaN.
parseResolution(res) ==
  LET parts == Split(res, "x")
      nums == [i \in 1..Len(parts) |-> ParseInt(Trim(parts[i]))]
  IN [width |-> IF Len(nums) >= 1 THEN nums[1] ELSE NaN,
      height |-> IF Len(nums) >= 2 THEN nums[2] ELSE NaN]

(***************************************************************************)
(* Filename sanitizer                                                      *)
(*                                                                         *)
(* A name can hold any code unit.  Beyond printable ASCII the model draws  *)
(* two: a lower-case letter whose upper case is one other non-ASCII code   *)
(* unit, and the sharp s, whose upper case is two code units.  The code    *)
(* units whose upper or lower case is an ASCII letter (U+017F, U+0131,     *)
(* U+212A, U+0130) cannot be written in a string of this module: of        *)
(* Canonicalize, the branch that keeps them apart from ASCII is written    *)
(* down but not exercised.                                                 *)
(***************************************************************************)

LowerLetters == "abcdefghijklmnopqrstuvwxyz"
UpperLetters == "ABCDEFGHIJKLMNOPQRSTUVWXYZ"

\* The code unit of every character a name is made of.
NameCodes == CharCodes @@ ("é" :> 233 @@ "É" :> 201 @@ "ß" :> 223)

NameChars == DOMAIN NameCodes

IsAscii(c) == NameCodes[c] < 128

\* A string as the sequence of its code units, and back.
CodeUnits(s) == [k \in 1..Len(s) |-> NameCodes[CharAt(s, k)]]

nameCharTable ==
  [n \in {NameCodes[c] : c \in NameChars} |-> CHOOSE c \in NameChars : NameCodes[c] = n]

RECURSIVE StringOf(_)
StringOf(units) ==
  IF Len(units) = 0 THEN "" ELSE nameCharTable[units[1]] \o StringOf(Tail(units))

\* String.prototype.toUpperCase and toLowerCase of one code unit.
toUpperCaseChar(c) ==
  IF c \in Lower THEN CharAt(UpperLetters, IndexOf(LowerLetters, c))
  ELSE IF c = "é" THEN "É"
  ELSE IF c = "ß" THEN "SS"
  ELSE c

toLowerCaseChar(c) ==
  IF c \in Upper THEN CharAt(LowerLetters, IndexOf(UpperLetters, c))
  ELSE IF c = "É" THEN "é"
  ELSE c

\* Canonicalize of a regular expression with the i flag and without the u flag:
\* the upper case of the code unit, unless that is more than one code unit or
\* turns a non-ASCII code unit into an ASCII one.
Canonicalize(ch) ==
  LET u == toUpperCaseChar(ch)
  IN IF Len(u) # 1 THEN ch
     ELSE IF ~IsAscii(ch) /\ IsAscii(u) THEN ch
     ELSE u

\* The code units the class [^a-z0-9] matches under the i flag: those whose
\* canonical form is the canonical form of no member of a-z0-9.
notAlnumClass ==
  {c \in NameChars : ~\E m \in Lower \cup Digits : Canonicalize(m) = Canonicalize(c)}

\* name.replace(/[^a-z0-9]+/gi, '-') from position i on: the scan copies a code
\* unit outside the class and replaces a longest run inside it by one hyphen.
RECURSIVE replaceNotAlnumRuns(_, _)
replaceNotAlnumRuns(s, i) ==
  IF i > Len(s) THEN ""
  ELSE IF CharAt(s, i) \in notAlnumClass
    THEN LET j == CHOOSE e \in i..Len(s) :
                    /\ \A k \in i..e : CharAt(s, k) \in notAlnumClass
                    /\ e < Len(s) => CharAt(s, e + 1) \notin notAlnumClass
         IN "-" \o replaceNotAlnumRuns(s, j + 1)
  ELSE CharAt(s, i) \o replaceNotAlnumRuns(s, i + 1)

\* .replace(/^-+|-+$/g, ''): the first alternative matches the hyphens the
\* string starts with, the second the hyphens it ends with.
RECURSIVE stripLeadingHyphens(_)
stripLeadingHyphens(s) ==
  IF Len(s) > 0 /\ CharAt(s, 1) = "-" THEN stripLeadingHyphens(SubSeq(s, 2, Len(s))) ELSE s

RECURSIVE stripTrailingHyphens(_)
stripTrailingHyphens(s) ==
  IF Len(s) > 0 /\ CharAt(s, Len(s)) = "-"
  THEN stripTrailingHyphens(SubSeq(s, 1, Len(s) - 1))
  ELSE s

stripHyphens(s) == stripTrailingHyphens(stripLeadingHyphens(s))

\* String.prototype.toLowerCase
RECURSIVE toLowerCase(_)
toLowerCase(s) ==
  IF Len(s) = 0 THEN "" ELSE toLowerCaseChar(CharAt(s, 1)) \o toLowerCase(SubSeq(s, 2, Len(s)))

\* Mutant of sanitizeFilename: the hyphens are stripped before the runs are
\* replaced instead of after.
sanitizeFilenameStrippingFirst(name) ==
  toLowerCase(replaceNotAlnumRuns(stripHyphens(name), 1))

sanitizeFilename(name) ==
  toLowerCase(stripHyphens(replaceNotAlnumRuns(name, 1)))

(***************************************************************************)
(* Option presets                                                          *)
(***************************************************************************)

StyleOption == {"realistic", "artistic", "cartoon", "abstract", "cyberpunk", "vintage"}
Resolution == {"512x512", "768x768", "1024x1024", "1536x1024"}
Quality == {"standard", "high", "ultra"}

STYLE_PRESETS ==
  [s \in StyleOption |->
     CASE s = "realistic" -> "photorealistic, natural lighting, DSLR depth of field, highly detailed"
       [] s = "artistic" -> "digital painting, painterly brushstrokes, dramatic lighting"
       [] s = "cartoon" -> "cartoon, cel-shaded, bold outlines, flat colors"
       [] s = "abstract" -> "abstract, geometric shapes, minimalism"
       [] s = "cyberpunk" -> "cyberpunk, neon lights, rain-soaked streets, holograms, high contrast"
       [] s = "vintage" -> "vintage, film grain, faded colors, 35mm photo, 1970s aesthetic"]

MODEL_BY_STYLE == [s \in StyleOption |-> "flux"]

qualityPreset(quality) ==
  IF quality = "ultra" THEN "ultra-detailed, crisp focus, 8k"
  ELSE IF quality = "high" THEN "high detail, sharp focus"
  ELSE ""

enhancedPrompt(trimmed, style, quality) ==
  STYLE_PRESETS[style] \o ", " \o trimmed
    \o (IF qualityPreset(quality) # "" THEN ", " \o qualityPreset(quality) ELSE "")

enhance(quality) == quality # "standard"

(***************************************************************************)
(* The random source                                                       *)
(***************************************************************************)

\* The largest element a Uint32Array holds, 2^32 - 1.
MaxUint32 == [hi |-> Limb - 1, lo |-> Limb - 1]

\* Values crypto.getRandomValues may write into the one-element Uint32Array.
RandomValues == {Num(0), [hi |-> Limb - 1, lo |-> Limb - 2], MaxUint32}

\* Values Date.now() may return during one call: milliseconds since the epoch,
\* here 1762193977401 and the millisecond after it.
ClockValues == {[hi |-> 26888946, lo |-> 12345], [hi |-> 26888946, lo |-> 12346]}

\* The values the seed expression reads at the images 0..count-1 of one call:
\* one fresh random value per image where crypto.getRandomValues exists, else
\* the clock per image, which does not run backwards during the call.
Draws(crypto, n) ==
  IF crypto THEN [1..n -> RandomValues]
  ELSE {d \in [1..n -> ClockValues] : \A i \in 1..n, j \in 1..n : i < j => NumLeq(d[i], d[j])}

\* seed of image i (from 0): the value read for that image, plus i.
seedOf(draw, i) == NumAdd(draw, i)

\* The argument object the map callback hands to buildPollinationsUrl.
imageParams(trimmed, style, quality, size, seed) ==
  [prompt |-> enhancedPrompt(trimmed, style, quality),
   width |-> size.width, height |-> size.height, seed |-> seed,
   model |-> MODEL_BY_STYLE[style], enhance |-> enhance(quality)]

\* Mutant of buildImage: the image keeps the enhanced prompt as its prompt.
buildImageKeepingEnhanced(trimmed, style, resolution, quality, draw, i) ==
  LET size == parseResolution(resolution)
      seed == seedOf(draw, i)
  IN [url |-> buildPollinationsUrl(imageParams(trimmed, style, quality, size, seed)),
      prompt |-> enhancedPrompt(trimmed, style, quality), style |-> style,
      resolution |-> resolution, quality |-> quality, seed |-> seed,
      width |-> size.width, height |-> size.height]

\* The element the map callback returns for image i (from 0).
buildImage(trimmed, style, resolution, quality, draw, i) ==
  LET size == parseResolution(resolution)
      seed == seedOf(draw, i)
  IN [url |-> buildPollinationsUrl(imageParams(trimmed, style, quality, size, seed)),
      prompt |-> trimmed, style |-> style, resolution |-> resolution,
      quality |-> quality, seed |-> seed, width |-> size.width, height |-> size.height]

\* next: Array.from({length: count}).map(...)
nextImages(trimmed, style, resolution, quality, count, draws) ==
  [k \in 1..count |-> buildImage(trimmed, style, resolution, quality, draws[k], k - 1)]

(***************************************************************************)
(* State of the App component                                              *)
(***************************************************************************)

VARIABLES
  prompt,        \* useState(''): the textarea's text
  style,         \* useState('realistic')
  resolution,    \* useState('512x512')
  quality,       \* useState('standard')
  count,         \* useState(1)
  isGenerating,  \* useState(false)
  status,        \* useState(null): <<>> for null, else <<[type, message]>>
  images,        \* useState([]): sequence of GeneratedImage
  modalUrl,      \* useState(null): <<>> for null, else <<url>>
  modalPrompt,   \* useState('')
  timers,        \* pending setTimeout callbacks in the order they will fire
  pending,       \* the 'next' arrays of the handleGenerate calls suspended at await
  hasCrypto,     \* whether window.crypto.getRandomValues exists in this browser
  request,       \* [params, quality]: the argument object of the last call of
                 \* buildPollinationsUrl checked alone, and <<the quality>> when
                 \* the call is the one made for an image of that quality
  address,       \* <<>>, or <<the address that call returned>>
  stem,          \* the argument of the call of sanitizeFilename checked alone, as
                 \* the sequence of its code units
  sanitized,     \* what that call returned and, after it, what the call on its
                 \* result returned
  lastOp,        \* history: whether the last step was a handleGenerate call, its
                 \* resumption or another handler, and the notifications it emitted
  call,          \* history: the textarea's text and the options when the last batch started
  viewer         \* history: the last openModal arguments, <<>> after closeModal

options == <<prompt, style, resolution, quality, count>>
modal == <<modalUrl, modalPrompt>>
env == <<hasCrypto, request, address, stem, sanitized>>
session == <<prompt, style, resolution, quality, count, isGenerating, status, images,
             modalUrl, modalPrompt, timers, pending, lastOp, call, viewer>>
vars == <<prompt, style, resolution, quality, count, isGenerating, status, images,
          modalUrl, modalPrompt, timers, pending, hasCrypto, request, address, stem,
          sanitized, lastOp, call, viewer>>

\* Bound of the model: at most this many status timers are pending at once (a
\* batch arms two, one with its info and one with its success notification).
MaxStatusTimers == 3

StatusTimers == {k \in 1..Len(timers) : timers[k] = "clearStatus"}

Op(name, emitted) == [name |-> name, emitted |-> emitted]

\* The arguments of the mount effect's own call of buildPollinationsUrl.
selfTestParams ==
  [prompt |-> "test prompt", width |-> Num(256), height |-> Num(256), seed |-> Num(123),
   model |-> "flux"]

\* The argument of the mount effect's first call of sanitizeFilename.
selfTestName == "Hello World!"

SessionInit ==
  /\ prompt = ""
  /\ style = "realistic"
  /\ resolution = "512x512"
  /\ quality = "standard"
  /\ count = 1
  /\ isGenerating = FALSE
  /\ status = <<>>
  /\ images = <<>>
  /\ modalUrl = <<>>
  /\ modalPrompt = ""
  /\ timers = <<>>
  /\ pending = <<>>
  /\ lastOp = Op("other", <<>>)
  /\ call = <<>>
  /\ viewer = <<>>

Init ==
  /\ SessionInit
  /\ hasCrypto \in BOOLEAN
  /\ request = [params |-> selfTestParams, quality |-> <<>>]
  /\ address = <<>>
  /\ stem = CodeUnits(selfTestName)
  /\ sanitized = <<>>

(***************************************************************************)
(* Status notifications                                                    *)
(***************************************************************************)

\* showStatus: the status it sets...
statusOf(type, message) == <<[type |-> type, message |-> message]>>

\* ...and the timer queue after it: every type but 'error' arms a 5000 ms timer
\* that sets the status to null.  All these timers have the same delay, so a
\* new one fires after every timer already pending.
armClear(tm, type) == IF type # "error" THEN Append(tm, "clearStatus") ELSE tm

\* setTimeout(() => setStatus(null), 5000) firing.
ClearStatusTimer ==
  /\ timers # <<>> /\ Head(timers) = "clearStatus"
  /\ status' = <<>>
  /\ timers' = Tail(timers)
  /\ lastOp' = Op("other", <<>>)
  /\ UNCHANGED <<options, isGenerating, images, modal, pending, env, call, viewer>>

(***************************************************************************)
(* handleGenerate                                                          *)
(***************************************************************************)

\* Mutant of rejectEmpty: the rejection also empties the image list.
rejectEmptyClearingImages ==
  /\ status' = statusOf("error", "Please enter a description for your image.")
  /\ timers' = armClear(timers, "error")
  /\ images' = <<>>
  /\ lastOp' = Op("handleGenerate", <<"error">>)
  /\ UNCHANGED <<options, isGenerating, modal, pending, env, call, viewer>>

\* if (!trimmed) { showStatus('error', ...); return }
rejectEmpty ==
  /\ status' = statusOf("error", "Please enter a description for your image.")
  /\ timers' = armClear(timers, "error")
  /\ lastOp' = Op("handleGenerate", <<"error">>)
  /\ UNCHANGED <<options, isGenerating, images, modal, pending, env, call, viewer>>

\* if (isGenerating) return
ignoreStart ==
  /\ lastOp' = Op("handleGenerate", <<>>)
  /\ UNCHANGED <<options, isGenerating, status, images, modal, timers, pending,
                 env, call, viewer>>

\* tm with the 600 ms continuation placed after its first pos callbacks: the
\* timers already pending fire within 5000 ms, before or after the 600 ms.
armResume(tm, pos) == SubSeq(tm, 1, pos) \o <<"resume">> \o SubSeq(tm, pos + 1, Len(tm))

\* Mutant of startBatch: setImages([]) is missing.
startBatchKeepingImages(draws, pos) ==
  LET trimmed == Trim(prompt)
      next == nextImages(trimmed, style, resolution, quality, count, draws)
  IN /\ Cardinality(StatusTimers) + 2 <= MaxStatusTimers
     /\ isGenerating' = TRUE
     /\ status' = statusOf("info", "Generating your images...")
     /\ timers' = armClear(armResume(timers, pos), "info")
     /\ pending' = Append(pending, next)
     /\ lastOp' = Op("handleGenerate", <<"info">>)
     /\ call' = <<[raw |-> prompt, style |-> style, resolution |-> resolution,
                   quality |-> quality, count |-> count]>>
     /\ UNCHANGED <<options, images, modal, env, viewer>>

\* The call up to its await: the state updates, the info status and the images
\* built into 'next', which the suspended call keeps.
startBatch(draws, pos) ==
  LET trimmed == Trim(prompt)
      next == nextImages(trimmed, style, resolution, quality, count, draws)
  IN /\ Cardinality(StatusTimers) + 2 <= MaxStatusTimers
     /\ isGenerating' = TRUE
     /\ images' = <<>>
     /\ status' = statusOf("info", "Generating your images...")
     /\ timers' = armClear(armResume(timers, pos), "info")
     /\ pending' = Append(pending, next)
     /\ lastOp' = Op("handleGenerate", <<"info">>)
     /\ call' = <<[raw |-> prompt, style |-> style, resolution |-> resolution,
                   quality |-> quality, count |-> count]>>
     /\ UNCHANGED <<options, modal, env, viewer>>

\* Mutant of handleGenerate: the line 'if (isGenerating) return' is missing.
handleGenerateUnguarded(draws, pos) ==
  IF Trim(prompt) = "" THEN rejectEmpty ELSE startBatch(draws, pos)

\* draws: what the random source yields for each image; pos: how many of the
\* pending timers fire before the 600 ms delay has passed.
handleGenerate(draws, pos) ==
  IF Trim(prompt) = "" THEN rejectEmpty
  ELSE IF isGenerating THEN ignoreStart
  ELSE startBatch(draws, pos)

successMessage(n) ==
  "Successfully generated " \o NumberToString(Num(n)) \o " image"
    \o (IF n > 1 THEN "s" ELSE "") \o "!"

\* Mutant of resumeGenerate: setIsGenerating(false) is missing.
resumeGenerateStayingBusy ==
  /\ timers # <<>> /\ Head(timers) = "resume"
  /\ images' = Head(pending)
  /\ status' = statusOf("success", successMessage(Len(Head(pending))))
  /\ timers' = armClear(Tail(timers), "success")
  /\ pending' = Tail(pending)
  /\ lastOp' = Op("resume", <<"success">>)
  /\ UNCHANGED <<options, isGenerating, modal, env, call, viewer>>

\* The call from its await on, run when the 600 ms timer fires.  Its three
\* state updates are committed in one render (React batches the updates made
\* in one task), as are those of the call's first part.
resumeGenerate ==
  /\ timers # <<>> /\ Head(timers) = "resume"
  /\ images' = Head(pending)
  /\ isGenerating' = FALSE
  /\ status' = statusOf("success", successMessage(Len(Head(pending))))
  /\ timers' = armClear(Tail(timers), "success")
  /\ pending' = Tail(pending)
  /\ lastOp' = Op("resume", <<"success">>)
  /\ UNCHANGED <<options, modal, env, call, viewer>>

(***************************************************************************)
(* The form, the viewer and the download button                            *)
(***************************************************************************)

setPrompt(p) ==
  /\ prompt' = p
  /\ lastOp' = Op("other", <<>>)
  /\ UNCHANGED <<style, resolution, quality, count, isGenerating, status, images, modal,
                 timers, pending, env, call, viewer>>

setStyle(s) ==
  /\ style' = s
  /\ lastOp' = Op("other", <<>>)
  /\ UNCHANGED <<prompt, resolution, quality, count, isGenerating, status, images, modal,
                 timers, pending, env, call, viewer>>

setResolution(r) ==
  /\ resolution' = r
  /\ lastOp' = Op("other", <<>>)
  /\ UNCHANGED <<prompt, style, quality, count, isGenerating, status, images, modal,
                 timers, pending, env, call, viewer>>

setQuality(q) ==
  /\ quality' = q
  /\ lastOp' = Op("other", <<>>)
  /\ UNCHANGED <<prompt, style, resolution, count, isGenerating, status, images, modal,
                 timers, pending, env, call, viewer>>

\* onChange of the count select: setCount(parseInt(e.target.value, 10))
setCount(value) ==
  /\ count' = ParseInt(value).lo
  /\ lastOp' = Op("other", <<>>)
  /\ UNCHANGED <<prompt, style, resolution, quality, isGenerating, status, images, modal,
                 timers, pending, env, call, viewer>>

openModal(url, p) ==
  /\ modalUrl' = <<url>>
  /\ modalPrompt' = p
  /\ lastOp' = Op("other", <<>>)
  /\ viewer' = <<[url |-> url, prompt |-> p]>>
  /\ UNCHANGED <<options, isGenerating, status, images, timers, pending, env, call>>

\* Mutant of closeModal: setModalPrompt('') is missing.
closeModalKeepingPrompt ==
  /\ modalUrl' = <<>>
  /\ lastOp' = Op("other", <<>>)
  /\ viewer' = <<>>
  /\ UNCHANGED <<options, isGenerating, status, images, modalPrompt, timers, pending, env,
                 call>>

closeModal ==
  /\ modalUrl' = <<>>
  /\ modalPrompt' = ""
  /\ lastOp' = Op("other", <<>>)
  /\ viewer' = <<>>
  /\ UNCHANGED <<options, isGenerating, status, images, timers, pending, env, call>>

\* download: the fetch and the save, or the alert of its catch block; no state
\* of the component is written.
download(url, name, ok) ==
  /\ lastOp' = Op("other", <<>>)
  /\ UNCHANGED <<options, isGenerating, status, images, modal, timers, pending,
                 env, call, viewer>>

(***************************************************************************)
(* What the user and the browser can do                                    *)
(***************************************************************************)

Prompts == {"", "  ", " a cat "}
CountValues == {"1", "2", "4"}

\* String.prototype.substring(0, n)
substring(s, n) == SubSeq(s, 1, IF Len(s) < n THEN Len(s) ELSE n)

\* The buttons of one image card: View Full (and the image itself), Download.
OpenImage == \E k \in 1..Len(images) : openModal(images[k].url, images[k].prompt)
CloseViewer == modalUrl # <<>> /\ closeModal
DownloadImage ==
  \E k \in 1..Len(images), ok \in BOOLEAN :
    download(images[k].url, substring(images[k].prompt, 30), ok)

EditPrompt == \E p \in Prompts : setPrompt(p)
EditCount == \E v \in CountValues : setCount(v)

\* One outcome of the random source: every read yields the same value.
SameDraws(crypto, n) ==
  {[k \in 1..n |-> IF crypto THEN MaxUint32 ELSE [hi |-> 26888946, lo |-> 12345]]}

\* The Generate button (enabled while not generating) or Ctrl+Enter in the
\* textarea (always).
Generate ==
  \E draws \in SameDraws(hasCrypto, count), pos \in 0..Len(timers) :
    handleGenerate(draws, pos)

\* The session, its notifications and the viewer, with the style, resolution
\* and quality selects left alone and one outcome of the random source.
Next ==
  \/ EditPrompt
  \/ EditCount
  \/ Generate
  \/ resumeGenerate
  \/ ClearStatusTimer
  \/ OpenImage
  \/ CloseViewer
  \/ DownloadImage

Spec == Init /\ [][Next]_vars

\* Timer callbacks that are due do run: the browser's event loop starves none.
FairSpec == Spec /\ WF_vars(resumeGenerate) /\ WF_vars(ClearStatusTimer)

\* The session under every selection of the form, two values per select of
\* more than three.
EditStyle == \E s \in {"realistic", "cyberpunk"} : setStyle(s)
EditResolution == \E r \in {"512x512", "1536x1024"} : setResolution(r)
EditQuality == \E q \in Quality : setQuality(q)
EditOptionPrompt == \E p \in {"", " a cat "} : setPrompt(p)

OptionNext ==
  \/ EditOptionPrompt
  \/ EditStyle
  \/ EditResolution
  \/ EditQuality
  \/ EditCount
  \/ Generate
  \/ resumeGenerate
  \/ ClearStatusTimer

OptionSpec == Init /\ [][OptionNext]_vars

\* The session under every outcome of the random source.
GenerateAnySeeds ==
  \E draws \in Draws(hasCrypto, count), pos \in 0..Len(timers) : handleGenerate(draws, pos)

SeedNext ==
  \/ EditOptionPrompt
  \/ EditCount
  \/ GenerateAnySeeds
  \/ resumeGenerate
  \/ ClearStatusTimer

SeedSpec == Init /\ [][SeedNext]_vars

\* buildPollinationsUrl alone: the call with the argument object drawn at the start.
callBuild ==
  /\ address = <<>>
  /\ address' = <<buildPollinationsUrl(request.params)>>
  /\ UNCHANGED <<session, hasCrypto, request, stem, sanitized>>

BuildPrompts == {"test prompt", "", "a&enhance=true", "what? 100% #1/2 + \"x\" = y"}
BuildSizes == {Num(256), Num(1536), NaN}
BuildSeeds == {Num(123), NumAdd(MaxUint32, 3)}
BuildModels == {"", "flux", "a b&enhance=true", "x=y?#+%~"}

\* The argument objects: model and enhance are optional.
BuildParams ==
  LET required == [prompt : BuildPrompts, width : BuildSizes, height : BuildSizes,
                   seed : BuildSeeds]
      withModel == {[f \in DOMAIN p \cup {"model"} |-> IF f = "model" THEN m ELSE p[f]] :
                      p \in required, m \in BuildModels}
      withEnhance(ps) == {[f \in DOMAIN p \cup {"enhance"} |-> IF f = "enhance" THEN e ELSE p[f]] :
                            p \in ps, e \in BOOLEAN}
  IN required \cup withModel \cup withEnhance(required \cup withModel)

\* The argument objects the map callback builds for an image.
BuildImageRequests ==
  {[params |-> imageParams(p, s, q, parseResolution(r), seedOf(draw, i)), quality |-> <<q>>] :
     p \in {"a cat", "x&enhance=true"}, s \in StyleOption, r \in Resolution, q \in Quality,
     draw \in {Num(0), MaxUint32}, i \in {0, 3}}

BuildInit ==
  /\ SessionInit
  /\ hasCrypto = TRUE
  /\ request \in {[params |-> p, quality |-> <<>>] : p \in BuildParams} \cup BuildImageRequests
  /\ address = <<>>
  /\ stem = CodeUnits(selfTestName)
  /\ sanitized = <<>>

BuildNext == callBuild

BuildSpec == BuildInit /\ [][BuildNext]_vars

\* sanitizeFilename alone: the call with the argument drawn at the start, then
\* the call with what it returned.
callSanitize ==
  /\ Len(sanitized) < 2
  /\ sanitized' = Append(sanitized,
                         sanitizeFilename(IF sanitized = <<>> THEN StringOf(stem)
                                          ELSE sanitized[1]))
  /\ UNCHANGED <<session, hasCrypto, request, address, stem>>

\* Bound of the model: the names drawn from StemChars have at most this many
\* code units.
MaxStemLen == 4

StemChars == {"a", "Z", "7", "-", " ", "!", "é", "ß"}

StemsOfLen(n) == [1..n -> {NameCodes[c] : c \in StemChars}]

\* The names of the mount effect's own calls, the first 30 code units of a
\* prompt as the Download button passes them, and every short name.
Stems ==
  {CodeUnits(s) :
     s \in {selfTestName, "A  B   C",
            substring("A photo of a CAT, sitting on the moon (4k)!", 30),
            "__my.File_v2.JPG--", "!?.,;:"}}
  \cup UNION {StemsOfLen(n) : n \in 0..MaxStemLen}

SanitizeInit ==
  /\ SessionInit
  /\ hasCrypto = TRUE
  /\ request = [params |-> selfTestParams, quality |-> <<>>]
  /\ address = <<>>
  /\ stem \in Stems
  /\ sanitized = <<>>

SanitizeNext == callSanitize

SanitizeSpec == SanitizeInit /\ [][SanitizeNext]_vars

(***************************************************************************)
(* The session state of the design, read off the component's state         *)
(***************************************************************************)

SessionState ==
  IF isGenerating THEN "Generating"
  ELSE IF status # <<>> /\ status[1].type = "error" THEN "Failed"
  ELSE IF images # <<>> THEN "Succeeded"
  ELSE "Idle"

\* The batches built so far that are still held: the one shown and those of
\* suspended calls.
Batches == {images} \cup {pending[k] : k \in 1..Len(pending)}

ResumeTimers == {k \in 1..Len(timers) : timers[k] = "resume"}

ErrorStatus == statusOf("error", "Please enter a description for your image.")

\* The step is a call of handleGenerate.
IsStart == lastOp'.name = "handleGenerate"

\* t is raw without its leading and trailing whitespace.
IsTrimOf(t, raw) ==
  /\ Len(t) > 0 => (CharAt(t, 1) \notin WhiteSpace /\ CharAt(t, Len(t)) \notin WhiteSpace)
  /\ \E a \in 0..(Len(raw) - Len(t)) :
       /\ SubSeq(raw, a + 1, a + Len(t)) = t
       /\ \A k \in (1..a) \cup ((a + Len(t) + 1)..Len(raw)) : CharAt(raw, k) \in WhiteSpace

\* The width and height each resolution token names.
TokenSize(r) ==
  CASE r = "512x512" -> [width |-> Num(512), height |-> Num(512)]
    [] r = "768x768" -> [width |-> Num(768), height |-> Num(768)]
    [] r = "1024x1024" -> [width |-> Num(1024), height |-> Num(1024)]
    [] r = "1536x1024" -> [width |-> Num(1536), height |-> Num(1024)]

(***************************************************************************)
(* Reading an address back                                                 *)
(***************************************************************************)

HexValue(c) == IndexOf("0123456789ABCDEF", c) - 1

CharOfCode(n) == CHOOSE c \in DOMAIN CharCodes : CharCodes[c] = n

\* The string a form-urlencoded name or value stands for.
RECURSIVE FormDecodeFrom(_, _)
FormDecodeFrom(s, i) ==
  IF i > Len(s) THEN ""
  ELSE IF CharAt(s, i) = "+" THEN " " \o FormDecodeFrom(s, i + 1)
  ELSE IF CharAt(s, i) = "%"
    THEN CharOfCode(16 * HexValue(CharAt(s, i + 1)) + HexValue(CharAt(s, i + 2)))
         \o FormDecodeFrom(s, i + 3)
  ELSE CharAt(s, i) \o FormDecodeFrom(s, i + 1)

\* The <<name, value>> pairs of an address's query, in order.
QueryPairs(url) ==
  LET query == Split(url, "?")[2]
      fields == Split(query, "&")
  IN [k \in 1..Len(fields) |->
        <<FormDecodeFrom(Split(fields[k], "=")[1], 1),
          FormDecodeFrom(Split(fields[k], "=")[2], 1)>>]

\* The pairs the interface gives an address for an argument object.
ExpectedPairs(p) ==
  {<<"width", IF IsNaN(p.width) THEN "NaN" ELSE NatToString(p.width)>>,
   <<"height", IF IsNaN(p.height) THEN "NaN" ELSE NatToString(p.height)>>,
   <<"seed", NatToString(p.seed)>>,
   <<"nologo", "true">>}
  \cup (IF "model" \in DOMAIN p /\ p.model # "" THEN {<<"model", p.model>>} ELSE {})
  \cup (IF "enhance" \in DOMAIN p /\ p.enhance THEN {<<"enhance", "true">>} ELSE {})

(***************************************************************************)
(* Claims                                                                  *)
(***************************************************************************)

\* C1 as stated: every handleGenerate call made while generating, whatever
\* the prompt, changes neither the session, the images nor the status and
\* emits no notification.
C1_StartWhileGeneratingIsNoOp ==
  [][(isGenerating /\ IsStart) =>
       (UNCHANGED <<isGenerating, images, status, timers, pending>>
        /\ lastOp'.emitted = <<>>)]_vars

\* C1 amended: a handleGenerate call made while generating never changes the
\* generating flag, the image list, the pending batch, the timers, the form or
\* the viewer, so at most one batch (and one continuation timer) is ever in
\* flight; with a non-empty trimmed prompt it also leaves the status alone and
\* emits nothing, while with an empty or whitespace-only prompt it replaces the
\* status by the validation error and emits that one error notification.
C1_StartWhileGeneratingKeepsBatch ==
  [][/\ Len(pending') <= 1
     /\ Cardinality(ResumeTimers') = Len(pending')
     /\ (isGenerating /\ IsStart) =>
          /\ UNCHANGED <<isGenerating, images, timers, pending, options, modal>>
          /\ IF Trim(prompt) = ""
             THEN lastOp'.emitted = <<"error">> /\ status' = ErrorStatus
             ELSE lastOp'.emitted = <<>> /\ status' = status]_vars

\* A start with a non-empty prompt was just ignored while a batch is in flight.
C1_Witness ==
  /\ isGenerating
  /\ lastOp = Op("handleGenerate", <<>>)
  /\ Len(pending) = 1

\* C2 as stated: the seeds of the images built by one handleGenerate call are
\* pairwise distinct.
C2_SeedsPairwiseDistinct ==
  \A batch \in Batches :
    \A i \in 1..Len(batch), j \in 1..Len(batch) : i # j => batch[i].seed # batch[j].seed

\* C3 as stated: after a handleGenerate call with an empty trimmed prompt made
\* while not generating, the session is Failed and holds no image list.
C3_EmptyStartLeavesNoImages ==
  (lastOp = Op("handleGenerate", <<"error">>) /\ ~isGenerating) =>
    (SessionState = "Failed" /\ images = <<>> /\ pending = <<>>)

\* C3 amended: a handleGenerate call with an empty trimmed prompt made while
\* not generating builds no images and never enters Generating: it emits exactly
\* one error notification, the session is Failed afterwards, no batch and no
\* timer is started, and the image list is left exactly as it was (the images
\* of an earlier batch stay in it).
C3_EmptyStartFailsKeepingImages ==
  [][(~isGenerating /\ IsStart /\ Trim(prompt) = "") =>
       /\ lastOp'.emitted = <<"error">>
       /\ status' = ErrorStatus
       /\ SessionState' = "Failed"
       /\ ~isGenerating'
       /\ images' = images
       /\ pending = <<>> /\ pending' = <<>>
       /\ timers' = timers]_vars

\* An empty-prompt start was just rejected while an earlier batch is shown.
C3_Witness ==
  /\ lastOp = Op("handleGenerate", <<"error">>)
  /\ ~isGenerating
  /\ images # <<>>
  /\ SessionState = "Failed"

\* C4: when a batch started with count N completes, the session is Succeeded
\* with exactly N images, each carrying the style, resolution and quality
\* selected at the call, the width and height that resolution names, and as
\* prompt the text of the textarea at the call without its surrounding
\* whitespace (not the enhanced prompt).
C4_BatchCarriesCallOptions ==
  lastOp.name = "resume" =>
    /\ SessionState = "Succeeded"
    /\ Len(images) = call[1].count
    /\ \A k \in 1..Len(images) :
         /\ images[k].style = call[1].style
         /\ images[k].resolution = call[1].resolution
         /\ images[k].quality = call[1].quality
         /\ images[k].width = TokenSize(call[1].resolution).width
         /\ images[k].height = TokenSize(call[1].resolution).height
         /\ IsTrimOf(images[k].prompt, call[1].raw)
         /\ images[k].prompt # ""

\* A batch of four completed after every select was changed during the delay.
C4_Witness ==
  /\ lastOp.name = "resume"
  /\ Len(images) = 4
  /\ style # call[1].style
  /\ resolution # call[1].resolution
  /\ quality # call[1].quality
  /\ count # call[1].count
  /\ call[1].quality = "ultra"
  /\ call[1].resolution = "1536x1024"

\* C5: while the session is Generating the image list is empty.
C5_NoImagesWhileGenerating == isGenerating => images = <<>>

\* A batch is in flight that was started while the viewer, opened on an image
\* of an earlier batch, is still open.
C5_Witness ==
  /\ isGenerating
  /\ images = <<>>
  /\ modalUrl # <<>>
  /\ lastOp = Op("handleGenerate", <<"info">>)

C7_ErrorStatusNeverExpires ==
  [][(status = ErrorStatus /\ status' # status) => lastOp'.emitted # <<>>]_vars

\* C8: the query of the address buildPollinationsUrl returns holds exactly
\* width, height and seed with the given values, nologo=true, model when a
\* non-empty model was given and enhance=true when enhance was true, each once;
\* the prompt adds no query of its own; and the address built for an image has
\* enhance=true exactly when the image's quality is not standard.
C8_AddressParameters ==
  address # <<>> =>
    LET url == address[1]
        pairs == QueryPairs(url)
    IN /\ Len(Split(url, "?")) = 2
       /\ {pairs[k] : k \in 1..Len(pairs)} = ExpectedPairs(request.params)
       /\ Len(pairs) = Cardinality(ExpectedPairs(request.params))
       /\ request.quality # <<>> =>
            ((\E k \in 1..Len(pairs) : pairs[k][1] = "enhance")
               <=> request.quality[1] # "standard")

\* An address was built from an empty model and enhance = false.
C8_Witness ==
  /\ address # <<>>
  /\ "model" \in DOMAIN request.params /\ request.params.model = ""
  /\ "enhance" \in DOMAIN request.params /\ ~request.params.enhance
  /\ IsNaN(request.params.width)

\* C9 as stated: every seed of an image is at most 2^32 - 1.
C9_SeedsFitUint32 ==
  \A batch \in Batches : \A k \in 1..Len(batch) : NumLeq(batch[k].seed, MaxUint32)

\* C10: the viewer holds exactly the arguments of the last openModal when no
\* closeModal followed it, and is closed with an empty prompt otherwise.
C10_ViewerFollowsSelectDismiss ==
  IF viewer = <<>>
  THEN modalUrl = <<>> /\ modalPrompt = ""
  ELSE modalUrl = <<viewer[1].url>> /\ modalPrompt = viewer[1].prompt

\* The viewer is still open on an image after a later batch has completed.
C10_Witness ==
  /\ viewer # <<>>
  /\ modalUrl # <<>>
  /\ lastOp.name = "resume"
  /\ \A k \in 1..Len(images) : images[k].url # modalUrl[1]

\* C11: sanitizeFilename applied to its own result returns that result; the
\* result holds only a-z, 0-9 and hyphens, each hyphen between two characters
\* that are none (no leading, trailing or doubled hyphen, no upper case); a
\* name without an ASCII letter or digit (the empty name, punctuation,
\* whitespace) gives the empty string; and the two names of the self-test
\* give hello-world and a-b-c.
C11_SanitizeIdempotent ==
  sanitized # <<>> =>
    LET name == StringOf(stem)
        out == sanitized[1]
    IN /\ Len(sanitized) = 2 => sanitized[2] = out
       /\ \A k \in 1..Len(out) :
            /\ CharAt(out, k) \in Lower \cup Digits \cup {"-"}
            /\ CharAt(out, k) = "-" =>
                 /\ 1 < k /\ k < Len(out)
                 /\ CharAt(out, k - 1) # "-" /\ CharAt(out, k + 1) # "-"
       /\ (\A k \in 1..Len(name) : CharAt(name, k) \notin AlphaNum) => out = ""
       /\ name = "Hello World!" => out = "hello-world"
       /\ name = "A  B   C" => out = "a-b-c"

\* Both calls were made for a name with a leading space, an upper-case letter
\* and a non-ASCII letter.
C11_Witness ==
  /\ StringOf(stem) = " Zé7"
  /\ sanitized = <<"z-7", "z-7">>
====
